---- MODULE Spec2Model ----
(***************************************************************************)
(* A model of meowdoc: the path filter (should_ignore), the corpus         *)
(* collector and the concurrent generation pipeline                        *)
(* (MeowdocCore.process_path), the docguide pages                          *)
(* (MeowdocCore.process_docguide_pages), the navigation merger             *)
(* (mkdocs.update_mkdocs_nav) and the settings merge (mkdocs.merge_dicts,  *)
(* mkdocs.update_mkdocs_config_from_toml), as driven by cli.main.          *)
(*                                                                         *)
(* A file or directory name is a tuple of one-character strings, so that   *)
(* fnmatch and os.path.splitext are computed character by character.  A    *)
(* path is a tuple of names; an absolute path starts with the name ROOT.   *)
(***************************************************************************)
EXTENDS Integers, Sequences, FiniteSets, TLC

VARIABLES
    probe,          \* the call of a pure function under test: its inputs and result
    cfg,            \* the run's settings: input_path, mkdocs_dir, docs_dir, ignore_patterns
    fs,             \* the filesystem: absolute path of each regular file -> its content
    pc,             \* where cli.main / process_path stands
    files,          \* process_path: the (fp, rel) pairs _collect_files returned
    unread,         \* process_path: the pairs the pre-read loop has not visited yet
    all_contents,   \* process_path: the Corpus, rel -> content
    fut,            \* process_path: each submitted task's state or outcome
    handled,        \* process_path: the tasks as_completed has already yielded
    results,        \* process_path: the list of output paths written, in write order
    wlog,           \* history: the writes of this run, in order, as [rel, path]
    cause,          \* why the run crashed ("" while it has not)
    yml,            \* mkdocs.yml: the parsed document; in SpecYml the file itself
    run,            \* how many times the tool has been started
    calls           \* history: how often llm_provider.generate ran for each task

vars == <<probe, cfg, fs, pc, files, unread, all_contents, fut, handled,
          results, wlog, cause, yml, run, calls>>

----------------------------------------------------------------------------
(* Names *)

ROOT == <<"/">>
DOT == <<".">>
DOTDOT == <<".", ".">>
n_w == <<"w">>
n_proj == <<"p", "r", "o", "j">>
n_docs == <<"d", "o", "c", "s">>
n_sub == <<"s", "u", "b">>
n_tub == <<"t", "u", "b">>
n_pkg == <<"p", "k", "g">>
n_a_py == <<"a", ".", "p", "y">>
n_a_txt == <<"a", ".", "t", "x", "t">>
n_b_py == <<"b", ".", "p", "y">>
n_b_bin == <<"b", ".", "b", "i", "n">>
n_pkg_py == <<"p", "k", "g", ".", "p", "y">>
n_mod_a_py == <<"m", "o", "d", "_", "a", ".", "p", "y">>
n_mkdocs_yml == <<"m", "k", "d", "o", "c", "s", ".", "y", "m", "l">>
n_index_md == <<"i", "n", "d", "e", "x", ".", "m", "d">>
n_API == <<"A", "P", "I">>
n_Home == <<"H", "o", "m", "e">>
ext_md == <<".", "m", "d">>

\* The working directory of the process, /w.
CWD == <<ROOT, n_w>>

----------------------------------------------------------------------------
(* os.path *)

Last(s) == s[Len(s)]
Front(s) == SubSeq(s, 1, Len(s) - 1)

IsAbs(p) == Len(p) > 0 /\ p[1] = ROOT

\* os.path.normpath on the segments of an absolute path: "." is dropped and
\* ".." removes the segment before it (and is itself dropped at the root).
RECURSIVE NormFrom(_, _)
NormFrom(done, rest) ==
    IF rest = <<>> THEN done
    ELSE IF rest[1] = DOT THEN NormFrom(done, Tail(rest))
    ELSE IF rest[1] = DOTDOT
         THEN NormFrom(IF Len(done) > 1 THEN Front(done) ELSE done, Tail(rest))
    ELSE NormFrom(Append(done, rest[1]), Tail(rest))

\* os.path.abspath: normpath(join(os.getcwd(), path)).
abspath(p) ==
    IF IsAbs(p) THEN NormFrom(<<ROOT>>, Tail(p)) ELSE NormFrom(CWD, p)

\* os.path.basename: the last segment; empty for "" and for the root.
basename(p) == IF p = <<>> \/ p = <<ROOT>> THEN <<>> ELSE Last(p)

\* os.path.dirname: the path without its last segment; "" and the root are
\* their own parents.
dirname(p) == IF p = <<>> \/ p = <<ROOT>> THEN p ELSE Front(p)

\* os.path.join of two paths: an absolute second path discards the first.
join(a, b) == IF IsAbs(b) THEN b ELSE a \o b

RECURSIVE CommonLen(_, _)
CommonLen(a, b) ==
    IF a = <<>> \/ b = <<>> \/ a[1] # b[1] THEN 0
    ELSE 1 + CommonLen(Tail(a), Tail(b))

\* os.path.relpath(path, start): ".." for each segment of start past the
\* common prefix, then the rest of path; "." when nothing is left.
relpath(p, start) ==
    LET a == abspath(p)
        b == abspath(start)
        c == CommonLen(a, b)
        ups == [i \in 1..(Len(b) - c) |-> DOTDOT]
        r == ups \o SubSeq(a, c + 1, Len(a))
    IN IF r = <<>> THEN <<DOT>> ELSE r

\* The index of the last "." of a name, 0 when it has none.
RECURSIVE LastDot(_, _)
LastDot(name, i) ==
    IF i = 0 THEN 0
    ELSE IF name[i] = "." THEN i
    ELSE LastDot(name, i - 1)

\* os.path.splitext: the extension starts at the last dot, unless only dots
\* come before it (".env" has no extension).
splitext(name) ==
    LET d == LastDot(name, Len(name))
    IN IF d > 0 /\ \E j \in 1..(d - 1) : name[j] # "."
       THEN <<SubSeq(name, 1, d - 1), SubSeq(name, d, Len(name))>>
       ELSE <<name, <<>> >>

----------------------------------------------------------------------------
(* fnmatch *)

\* The index of the "]" closing the class opened at pat[i] = "[", 0 when
\* the class is never closed: a "!" and then a "]" right after the bracket
\* are part of the class (fnmatch.translate).
RECURSIVE FindClose(_, _)
FindClose(pat, j) ==
    IF j > Len(pat) THEN 0
    ELSE IF pat[j] = "]" THEN j
    ELSE FindClose(pat, j + 1)

ClassEnd(pat, i) ==
    LET j1 == IF i + 1 <= Len(pat) /\ pat[i + 1] = "!" THEN i + 2 ELSE i + 1
        j2 == IF j1 <= Len(pat) /\ pat[j1] = "]" THEN j1 + 1 ELSE j1
    IN FindClose(pat, j2)

\* Whether character c is in the class pat[i..e], "[" at i and "]" at e.
InClass(pat, i, e, c) ==
    LET neg == pat[i + 1] = "!"
        from == IF neg THEN i + 2 ELSE i + 1
        member == \E k \in from..(e - 1) : pat[k] = c
    IN IF neg THEN ~member ELSE member

\* Whether name[i..] matches pat[j..]: "*" any run of characters, "?" any
\* one character, "[...]" one character of a class, anything else itself.
RECURSIVE GlobFrom(_, _, _, _)
GlobFrom(name, i, pat, j) ==
    IF j > Len(pat) THEN i > Len(name)
    ELSE IF pat[j] = "*"
         THEN \E k \in i..(Len(name) + 1) : GlobFrom(name, k, pat, j + 1)
    ELSE IF i > Len(name) THEN FALSE
    ELSE IF pat[j] = "?" THEN GlobFrom(name, i + 1, pat, j + 1)
    ELSE IF pat[j] = "[" /\ ClassEnd(pat, j) > 0
         THEN /\ InClass(pat, j, ClassEnd(pat, j), name[i])
              /\ GlobFrom(name, i + 1, pat, ClassEnd(pat, j) + 1)
    ELSE name[i] = pat[j] /\ GlobFrom(name, i + 1, pat, j + 1)

\* fnmatch.fnmatch(name, pat): the whole name matches the pattern.
fnmatch(name, pat) == GlobFrom(name, 1, pat, 1)

----------------------------------------------------------------------------
(* MeowdocCore.should_ignore *)

MatchesAny(name, patterns) ==
    \E i \in 1..Len(patterns) : fnmatch(name, patterns[i])

\* A defect the check of the path filter must notice: only the path's own
\* base name is compared, its ancestors are not.
IgnoreLoopOwnNameOnly(path, patterns) ==
    path # <<>> /\ MatchesAny(basename(path), patterns)

\* The while loop: compare the base name with every pattern, move to the
\* parent, stop when the parent is its own parent (the root).
RECURSIVE IgnoreLoop(_, _)
IgnoreLoop(path, patterns) ==
    IF path = <<>> THEN FALSE
    ELSE IF MatchesAny(basename(path), patterns) THEN TRUE
    ELSE LET parent == dirname(path)
         IN IF parent = dirname(parent) THEN FALSE
            ELSE IgnoreLoop(parent, patterns)

should_ignore(path, patterns) == IgnoreLoop(abspath(path), patterns)

----------------------------------------------------------------------------
(* The filesystem *)

\* How many files lie below the input directory at most, mkdocs.yml
\* included when the site is inside it.
MaxFiles == 2
\* How many times the tool is started at most.
MaxRuns == 2

\* The files the input directory proj may hold, relative to it.  b.bin is
\* not valid UTF-8: reading it as text raises.
Candidates ==
    { <<n_a_py>>, <<n_a_txt>>, <<n_sub, n_b_py>>, <<n_pkg_py>>,
      <<n_pkg, n_mod_a_py>>, <<n_b_bin>> }

\* The ignore pattern lists of [ignore] patterns.
PatternSets ==
    { <<>>,
      << n_sub >>,
      << <<"*", ".", "y", "m", "l">>, <<"*", ".", "t", "x", "t">> >> }

\* mkdocs_dir: beside the input directory, or inside it.
MkdocsDirs == { <<n_docs>>, <<n_proj, n_docs>> }

SrcContent(a) ==
    [kind |-> IF Last(a) = n_b_bin THEN "bin" ELSE "src", of |-> a]
DocContent(rel) == [kind |-> "doc", of |-> rel]
YmlContent == [kind |-> "yml", of |-> <<>>]
IndexContent == [kind |-> "index", of |-> <<>>]

\* open(fp, 'r', encoding='utf-8').read() succeeds.
Readable(content) == content.kind # "bin"

IsPrefix(a, b) == Len(a) <= Len(b) /\ SubSeq(b, 1, Len(a)) = a

IsFile(p) == abspath(p) \in DOMAIN fs
IsDir(p) == \E f \in DOMAIN fs : IsPrefix(abspath(p), f) /\ f # abspath(p)

\* The content directory, os.path.join(mkdocs_dir, docs_dir).
mkdocs_docs == join(cfg.mkdocs_dir, cfg.docs_dir)
YmlPath(mkdocs_dir) == join(mkdocs_dir, <<n_mkdocs_yml>>)

----------------------------------------------------------------------------
(* MeowdocCore._collect_files *)

\* os.walk(top): every regular file below the directory top, as the pair
\* (root, fname) of the directory it was listed in and its name, both as
\* os.walk spells them (top itself followed by the subdirectories).  A top
\* that is a file, or is missing, yields nothing.
Walk(top) ==
    LET t == abspath(top)
    IN { [root |-> top \o SubSeq(f, Len(t) + 1, Len(f) - 1), fname |-> Last(f)] :
            f \in { g \in DOMAIN fs : IsPrefix(t, g) /\ g # t } }

\* A defect the check of the collector must notice: the directory test is
\* skipped and a file is filtered by its own name only.
CollectByOwnNameOnly ==
    { [fp |-> join(e.root, <<e.fname>>),
       rel |-> relpath(join(e.root, <<e.fname>>), cfg.input_path)] :
         e \in { x \in Walk(cfg.input_path) :
                    ~MatchesAny(x.fname, cfg.ignore_patterns) } }

collect_files ==
    { [fp |-> join(e.root, <<e.fname>>),
       rel |-> relpath(join(e.root, <<e.fname>>), cfg.input_path)] :
         e \in { x \in Walk(cfg.input_path) :
                    /\ ~should_ignore(x.root, cfg.ignore_patterns)
                    /\ ~should_ignore(join(x.root, <<x.fname>>),
                                      cfg.ignore_patterns) } }

----------------------------------------------------------------------------
(* MeowdocCore.process_path *)

EmptyMap == [x \in {} |-> {}]

\* The output path of the entry with relative path rel.
OutPath(rel) ==
    LET out_fname == splitext(basename(rel))[1] \o ext_md
    IN join(join(mkdocs_docs, dirname(rel)), <<out_fname>>)

\* files = self._collect_files(); all_contents = {}
CollectFiles ==
    /\ pc = "start"
    /\ files' = collect_files
    /\ unread' = collect_files
    /\ all_contents' = EmptyMap
    /\ fut' = EmptyMap
    /\ handled' = {}
    /\ results' = <<>>
    /\ wlog' = <<>>
    /\ calls' = EmptyMap
    /\ pc' = "read"
    /\ UNCHANGED <<probe, cfg, fs, cause, yml, run>>

\* One turn of the pre-read loop: the file's text enters the Corpus, or the
\* read fails, is logged, and the file is left out.
ReadFile ==
    /\ pc = "read"
    /\ unread # {}
    /\ LET f == CHOOSE x \in unread : TRUE
           content == fs[abspath(f.fp)]
       IN /\ unread' = unread \ {f}
          /\ all_contents' =
                IF Readable(content)
                THEN [r \in DOMAIN all_contents \cup {f.rel} |->
                         IF r = f.rel THEN content ELSE all_contents[r]]
                ELSE all_contents
    /\ UNCHANGED <<probe, cfg, fs, pc, files, fut, handled, results, wlog,
                   cause, yml, run, calls>>

\* A defect the check of the frozen Corpus must notice: the executor is
\* entered while files are still unread.
PrepareOutputDirEarly ==
    /\ pc = "read"
    /\ pc' = IF files = {} THEN "join" ELSE "submit"
    /\ UNCHANGED <<probe, cfg, fs, files, unread, all_contents, fut, handled,
                   results, wlog, cause, yml, run, calls>>

\* pathlib.Path(mkdocs_docs).mkdir(parents=True, exist_ok=True), after the
\* last read; then the executor is entered.
PrepareOutputDir ==
    /\ pc = "read"
    /\ unread = {}
    /\ pc' = IF files = {} THEN "join" ELSE "submit"
    /\ UNCHANGED <<probe, cfg, fs, files, unread, all_contents, fut, handled,
                   results, wlog, cause, yml, run, calls>>

\* exe.submit(self.generate_docs, fp, all_contents) for the next file.
Submit ==
    /\ pc = "submit"
    /\ LET f == CHOOSE x \in files \ DOMAIN fut : TRUE
       IN /\ fut' = [x \in DOMAIN fut \cup {f} |->
                        IF x = f THEN "pending" ELSE fut[x]]
          /\ pc' = IF DOMAIN fut \cup {f} = files THEN "join" ELSE "submit"
    /\ UNCHANGED <<probe, cfg, fs, files, unread, all_contents, handled,
                   results, wlog, cause, yml, run, calls>>

\* What generate_docs may end with for an entry of the Corpus: the text the
\* provider returned ("text"), the provider's empty string ("empty"), None
\* after the provider raised ("none"), or an exception raised outside the
\* try block, by reading the docguide hint file ("raised").
GenOutcomes == {"text", "empty", "none", "raised"}

\* A defect the check of the single attempt must notice: a task whose
\* provider call failed or answered "" is run again, up to three times.
TaskRunRetries(f) ==
    /\ pc \in {"submit", "join", "crashed"}
    /\ f \in DOMAIN fut
    /\ f \notin handled
    /\ \/ fut[f] = "pending"
       \/ fut[f] \in {"empty", "none"} /\ f \in DOMAIN calls /\ calls[f] < 3
    /\ \E o \in GenOutcomes :
          LET in_corpus == f.rel \in DOMAIN all_contents
              generated == IF in_corpus /\ o # "raised" THEN 1 ELSE 0
          IN /\ fut' = [fut EXCEPT ![f] = IF in_corpus THEN o ELSE "none"]
             /\ calls' = [x \in DOMAIN calls \cup {f} |->
                            IF x = f
                            THEN (IF f \in DOMAIN calls THEN calls[f] ELSE 0)
                                 + generated
                            ELSE calls[x]]
    /\ UNCHANGED <<probe, cfg, fs, pc, files, unread, all_contents, handled,
                   results, wlog, cause, yml, run>>

\* generate_docs on a worker thread, for a submitted task.  The tasks still
\* pending when process_path raises run too: the executor's exit waits for
\* them before the exception leaves the with block.  The provider is
\* called once, unless the entry is missing from the Corpus or the hint
\* file cannot be read.
TaskRun(f) ==
    /\ pc \in {"submit", "join", "crashed"}
    /\ f \in DOMAIN fut
    /\ fut[f] = "pending"
    /\ \E o \in GenOutcomes :
          LET in_corpus == f.rel \in DOMAIN all_contents
              generated == IF in_corpus /\ o # "raised" THEN 1 ELSE 0
          IN /\ fut' = [fut EXCEPT ![f] = IF in_corpus THEN o ELSE "none"]
             /\ calls' = [x \in DOMAIN calls \cup {f} |->
                            IF x = f
                            THEN (IF f \in DOMAIN calls THEN calls[f] ELSE 0)
                                 + generated
                            ELSE calls[x]]
    /\ UNCHANGED <<probe, cfg, fs, pc, files, unread, all_contents, handled,
                   results, wlog, cause, yml, run>>

Finished(f) == f \in DOMAIN fut /\ fut[f] # "pending"

\* as_completed yields a task that returned text, and the file is written.
HandleText(f) ==
    /\ pc = "join"
    /\ Finished(f) /\ f \notin handled
    /\ fut[f] = "text"
    /\ handled' = handled \cup {f}
    /\ LET out_path == OutPath(f.rel)
       IN /\ fs' = [p \in DOMAIN fs \cup {abspath(out_path)} |->
                      IF p = abspath(out_path) THEN DocContent(f.rel) ELSE fs[p]]
          /\ results' = Append(results, out_path)
          /\ wlog' = Append(wlog, [rel |-> f.rel, path |-> out_path])
    /\ UNCHANGED <<probe, cfg, pc, files, unread, all_contents, fut, cause,
                   yml, run, calls>>

\* as_completed yields a task that returned text, and mkdir or open or write
\* raises OSError: nothing catches it, and process_path ends with it.
HandleOutputError(f) ==
    /\ pc = "join"
    /\ Finished(f) /\ f \notin handled
    /\ fut[f] = "text"
    /\ handled' = handled \cup {f}
    /\ pc' = "crashed"
    /\ cause' = "output_error"
    /\ UNCHANGED <<probe, cfg, fs, files, unread, all_contents, fut, results,
                   wlog, yml, run, calls>>

\* A defect the check of the empty result must notice: "if docs is not
\* None" in place of "if docs", so that an empty text is written as a file.
HandleEmptyAsText(f) ==
    /\ pc = "join"
    /\ Finished(f) /\ f \notin handled
    /\ fut[f] \in {"empty", "none"}
    /\ handled' = handled \cup {f}
    /\ LET out_path == OutPath(f.rel)
       IN /\ fs' = IF fut[f] = "none" THEN fs
                   ELSE [p \in DOMAIN fs \cup {abspath(out_path)} |->
                           IF p = abspath(out_path) THEN DocContent(f.rel)
                           ELSE fs[p]]
          /\ results' = IF fut[f] = "none" THEN results
                        ELSE Append(results, out_path)
          /\ wlog' = IF fut[f] = "none" THEN wlog
                     ELSE Append(wlog, [rel |-> f.rel, path |-> out_path])
    /\ UNCHANGED <<probe, cfg, pc, files, unread, all_contents, fut, cause,
                   yml, run, calls>>

\* as_completed yields a task that returned "" or None: logged, no file.
HandleNoDocs(f) ==
    /\ pc = "join"
    /\ Finished(f) /\ f \notin handled
    /\ fut[f] \in {"empty", "none"}
    /\ handled' = handled \cup {f}
    /\ UNCHANGED <<probe, cfg, fs, pc, files, unread, all_contents, fut,
                   results, wlog, cause, yml, run, calls>>

\* as_completed yields a task that raised: fut.result() raises it again,
\* nothing catches it, and process_path ends with it.
HandleRaised(f) ==
    /\ pc = "join"
    /\ Finished(f) /\ f \notin handled
    /\ fut[f] = "raised"
    /\ handled' = handled \cup {f}
    /\ pc' = "crashed"
    /\ cause' = "task_exception"
    /\ UNCHANGED <<probe, cfg, fs, files, unread, all_contents, fut, results,
                   wlog, yml, run, calls>>

\* return results
Return ==
    /\ pc = "join"
    /\ handled = files
    /\ pc' = "returned"
    /\ UNCHANGED <<probe, cfg, fs, files, unread, all_contents, fut, handled,
                   results, wlog, cause, yml, run, calls>>

ProcessPath ==
    \/ CollectFiles
    \/ ReadFile
    \/ PrepareOutputDir
    \/ Submit
    \/ \E f \in files : TaskRun(f)
    \/ \E f \in files : HandleText(f)
    \/ \E f \in files : HandleOutputError(f)
    \/ \E f \in files : HandleNoDocs(f)
    \/ \E f \in files : HandleRaised(f)
    \/ Return

----------------------------------------------------------------------------
(* MeowdocCore.process_docguide_pages *)

n_docguide == <<"d", "o", "c", "g", "u", "i", "d", "e">>
n_pages == <<"(", "p", "a", "g", "e", "s", ")">>
n_x_ai_md == <<"x", ".", "a", "i", ".", "m", "d">>
n_x_md == <<"x", ".", "m", "d">>
n_y_md == <<"y", ".", "m", "d">>
n_z_md == <<"z", ".", "m", "d">>
n_notes_txt == <<"n", "o", "t", "e", "s", ".", "t", "x", "t">>
ext_ai == <<".", "a", "i">>
ext_ai_md == <<".", "a", "i", ".", "m", "d">>

\* str.endswith
EndsWith(name, suffix) ==
    /\ Len(suffix) <= Len(name)
    /\ SubSeq(name, Len(name) - Len(suffix) + 1, Len(name)) = suffix

pages_input_dir == <<n_docguide, n_pages>>

PageContent(a) == [kind |-> "page", of |-> a]
GeneratedPage(a) == [kind |-> "gen", of |-> a]

\* The body of the loop over os.walk(pages_input_dir) for one file: the
\* task it submits, or none.  splitext takes the last extension, so the
\* name x.ai.md has the extension ".md".
PageTaskOf(e, output_docs_dir_full) ==
    LET fname == e.fname
        input_filepath == join(e.root, <<fname>>)
        relative_to_pages_input == relpath(e.root, pages_input_dir)
        output_fname_base == splitext(fname)[1]
        ext == splitext(fname)[2]
        kept == IF ~(EndsWith(fname, ext_md) \/ EndsWith(fname, ext_ai_md))
                THEN FALSE
                ELSE IF ext = ext_ai THEN TRUE
                ELSE ext = ext_md /\ ~EndsWith(fname, ext_ai_md)
        output_fname == IF ext = ext_ai THEN output_fname_base \o ext_md
                        ELSE fname
        output_filepath ==
            join(join(output_docs_dir_full, relative_to_pages_input),
                 <<output_fname>>)
    IN IF ~kept THEN {}
       ELSE { [fp |-> input_filepath,
               out |-> output_filepath,
               rel |-> relpath(output_filepath, output_docs_dir_full),
               use_ai |-> EndsWith(fname, ext_ai_md)] }

\* The walk of docguide/(pages): a task is submitted for every file the
\* loop keeps; without the directory the function returns [] at once.
SubmitPages ==
    /\ pc = "pages_start"
    /\ files' = UNION { PageTaskOf(e, mkdocs_docs) : e \in Walk(pages_input_dir) }
    /\ fut' = [t \in files' |-> "pending"]
    /\ handled' = {}
    /\ results' = <<>>
    /\ wlog' = <<>>
    /\ calls' = EmptyMap
    /\ pc' = IF IsDir(pages_input_dir) THEN "pages_join" ELSE "pages_returned"
    /\ UNCHANGED <<probe, cfg, fs, unread, all_contents, cause, yml, run>>

\* _process_single_docguide_page on a worker thread: the page is copied, or
\* its text is sent to the provider and the answer written, and the task
\* returns the page's path for the nav ("path"); an empty answer or any
\* exception makes it return None ("none"), with nothing written.
PageTaskRun(t) ==
    /\ pc = "pages_join"
    /\ t \in DOMAIN fut
    /\ fut[t] = "pending"
    /\ \E done \in BOOLEAN :
          /\ fut' = [fut EXCEPT ![t] = IF done THEN "path" ELSE "none"]
          /\ fs' = IF done
                   THEN [p \in DOMAIN fs \cup {abspath(t.out)} |->
                           IF p = abspath(t.out)
                           THEN (IF t.use_ai THEN GeneratedPage(abspath(t.fp))
                                 ELSE fs[abspath(t.fp)])
                           ELSE fs[p]]
                   ELSE fs
          /\ wlog' = IF done THEN Append(wlog, [rel |-> t.rel, path |-> t.out])
                     ELSE wlog
          /\ calls' = [x \in DOMAIN calls \cup {t} |->
                         IF x = t THEN (IF t.use_ai THEN 1 ELSE 0)
                         ELSE calls[x]]
    /\ UNCHANGED <<probe, cfg, pc, files, unread, all_contents, handled,
                   results, cause, yml, run>>

\* as_completed yields a page task: a result that is not None is appended.
HandlePage(t) ==
    /\ pc = "pages_join"
    /\ Finished(t) /\ t \notin handled
    /\ handled' = handled \cup {t}
    /\ results' = IF fut[t] = "path" THEN Append(results, t.rel) ELSE results
    /\ UNCHANGED <<probe, cfg, fs, pc, files, unread, all_contents, fut,
                   wlog, cause, yml, run, calls>>

\* return processed_page_relative_paths
ReturnPages ==
    /\ pc = "pages_join"
    /\ handled = files
    /\ pc' = "pages_returned"
    /\ UNCHANGED <<probe, cfg, fs, files, unread, all_contents, fut, handled,
                   results, wlog, cause, yml, run, calls>>

ProcessDocguidePages ==
    \/ SubmitPages
    \/ \E t \in files : PageTaskRun(t)
    \/ \E t \in files : HandlePage(t)
    \/ ReturnPages

----------------------------------------------------------------------------
(* mkdocs.update_mkdocs_nav *)

\* An element of a nav list is a one-key map: a leaf {k: path} or a section
\* {k: [elements]}.
Leaf(k, path) == [k |-> k, leaf |-> TRUE, path |-> path, kids |-> <<>>]
Section(k, kids) == [k |-> k, leaf |-> FALSE, path |-> <<>>, kids |-> kids]

\* file_nav_structure is a dict: its keys in insertion order, and each
\* key's value, a path string or a nested dict.
EmptyDict == [keys |-> <<>>, vals |-> EmptyMap]
StrVal(path) == [isdict |-> FALSE, path |-> path, d |-> EmptyDict]
DictVal(d) == [isdict |-> TRUE, path |-> <<>>, d |-> d]

HasKey(d, k) == \E i \in 1..Len(d.keys) : d.keys[i] = k

\* d[k] = v: a new key goes last, an existing key keeps its place and
\* takes the new value.
SetItem(d, k, v) ==
    [keys |-> IF HasKey(d, k) THEN d.keys ELSE Append(d.keys, k),
     vals |-> [x \in DOMAIN d.vals \cup {k} |-> IF x = k THEN v ELSE d.vals[x]]]

\* The body of "for file in generated_files" on the dict d, for the
\* directory parts dirs, the file's stem and its relative path.  Stepping
\* into a key that holds a path string makes the next statement raise
\* TypeError (a str takes no item assignment and no str index): ok is FALSE.
RECURSIVE InsertFile(_, _, _, _)
InsertFile(d, dirs, filename, relative_path) ==
    IF dirs = <<>>
    THEN [ok |-> TRUE, d |-> SetItem(d, filename, StrVal(relative_path))]
    ELSE LET part == dirs[1]
             d1 == IF HasKey(d, part) THEN d
                   ELSE SetItem(d, part, DictVal(EmptyDict))
             child == d1.vals[part]
         IN IF ~child.isdict THEN [ok |-> FALSE, d |-> d]
            ELSE LET r == InsertFile(child.d, Tail(dirs), filename,
                                     relative_path)
                 IN [ok |-> r.ok, d |-> SetItem(d1, part, DictVal(r.d))]

\* The whole loop over generated_files, from the dict built so far.
RECURSIVE BuildNavStructure(_, _, _)
BuildNavStructure(acc, generated_files, content_dir) ==
    IF generated_files = <<>> \/ ~acc.ok THEN acc
    ELSE LET relative_path == relpath(generated_files[1], content_dir)
             filename == splitext(Last(relative_path))[1]
         IN BuildNavStructure(
                InsertFile(acc.d, Front(relative_path), filename,
                           relative_path),
                Tail(generated_files), content_dir)

\* convert_to_mkdocs_nav: the dict as a list of one-key maps, nested dicts
\* converted in turn.
RECURSIVE convert_to_mkdocs_nav(_)
convert_to_mkdocs_nav(data) ==
    [i \in 1..Len(data.keys) |->
        LET key == data.keys[i]
            value == data.vals[key]
        IN IF value.isdict
           THEN Section(key, convert_to_mkdocs_nav(value.d))
           ELSE Leaf(key, value.path)]

\* The index of the first nav item that has the key API, 0 when none has.
RECURSIVE FirstAPI(_, _)
FirstAPI(nav, i) ==
    IF i > Len(nav) THEN 0
    ELSE IF nav[i].k = n_API THEN i
    ELSE FirstAPI(nav, i + 1)

\* A defect the check of the append must notice: the API section is set to
\* the new structure, and the entries it held are gone.
UpdateNavDirReplaces(nav, generated_files, content_dir) ==
    LET found == FirstAPI(nav, 1)
        nav1 == IF found = 0 THEN Append(nav, Section(n_API, <<>>)) ELSE nav
        at == IF found = 0 THEN Len(nav1) ELSE found
        built == BuildNavStructure([ok |-> TRUE, d |-> EmptyDict],
                                   generated_files, content_dir)
    IN IF ~built.ok \/ nav1[at].leaf THEN [ok |-> FALSE, nav |-> nav]
       ELSE [ok |-> TRUE,
             nav |-> [nav1 EXCEPT ![at].kids = convert_to_mkdocs_nav(built.d)]]

\* The directory branch.  ok is FALSE when the call raises before it writes
\* mkdocs.yml: building the dict raised, or the API item holds a string,
\* which has no extend.
UpdateNavDir(nav, generated_files, content_dir) ==
    LET found == FirstAPI(nav, 1)
        nav1 == IF found = 0 THEN Append(nav, Section(n_API, <<>>)) ELSE nav
        at == IF found = 0 THEN Len(nav1) ELSE found
        built == BuildNavStructure([ok |-> TRUE, d |-> EmptyDict],
                                   generated_files, content_dir)
    IN IF ~built.ok \/ nav1[at].leaf THEN [ok |-> FALSE, nav |-> nav]
       ELSE [ok |-> TRUE,
             nav |-> [nav1 EXCEPT ![at].kids =
                         @ \o convert_to_mkdocs_nav(built.d)]]

\* A defect the check of the single-file branch must notice: the entry is
\* appended without looking for an equal one.
UpdateNavFileAlwaysAppends(nav, generated_files, mkdocs_dir) ==
    LET file == generated_files[1]
    IN [ok |-> TRUE,
        nav |-> Append(nav, Leaf(splitext(basename(file))[1],
                                 relpath(file, mkdocs_dir)))]

\* The single-file branch: one {name: path} entry, path relative to
\* mkdocs_dir, appended unless an equal entry is in the list.
UpdateNavFile(nav, generated_files, mkdocs_dir) ==
    LET file == generated_files[1]
        nav_entry == Leaf(splitext(basename(file))[1], relpath(file, mkdocs_dir))
    IN [ok |-> TRUE,
        nav |-> IF \E i \in 1..Len(nav) : nav[i] = nav_entry THEN nav
                ELSE Append(nav, nav_entry)]

\* update_mkdocs_nav on the parsed document doc: the document it writes and
\* whether it wrote it.
update_mkdocs_nav(doc, generated_files, is_input_dir, mkdocs_dir, docs_dir_name) ==
    LET nav == IF doc.has_nav THEN doc.nav ELSE <<>>
        r == IF is_input_dir
             THEN UpdateNavDir(nav, generated_files,
                               join(mkdocs_dir, docs_dir_name))
             ELSE UpdateNavFile(nav, generated_files, mkdocs_dir)
    IN [ok |-> r.ok,
        doc |-> IF r.ok
                THEN [has_nav |-> TRUE, nav |-> r.nav, site_name |-> "project"]
                ELSE doc]

\* The documents mkdocs.yml may hold before the first run: without a nav
\* key, as "mkdocs new" and create_mkdocs_project leave it, and with an API
\* section from an earlier run.
SiteDoc(has_nav, nav) == [has_nav |-> has_nav, nav |-> nav, site_name |-> "site"]
n_mod_a_md == <<"m", "o", "d", "_", "a", ".", "m", "d">>
n_mod_a == <<"m", "o", "d", "_", "a">>
InitialDocs ==
    { SiteDoc(FALSE, <<>>),
      SiteDoc(TRUE, << Leaf(n_Home, <<n_index_md>>) >>),
      SiteDoc(TRUE, << Section(n_API, << Leaf(n_mod_a, <<n_pkg, n_mod_a_md>>) >>),
                       Leaf(n_Home, <<n_index_md>>) >>) }

----------------------------------------------------------------------------
(* mkdocs.yml on disk: yaml.safe_load, merge_dicts, yaml.dump *)

\* A value as yaml.safe_load returns it: None, a string, a number, a list
\* or a dict (its keys in insertion order, as in file_nav_structure).  The
\* items of a list are nav elements.
YNull == [t |-> "null", s |-> "", n |-> 0, items |-> <<>>, d |-> EmptyDict]
YStr(s) == [t |-> "str", s |-> s, n |-> 0, items |-> <<>>, d |-> EmptyDict]
YInt(n) == [t |-> "int", s |-> "", n |-> n, items |-> <<>>, d |-> EmptyDict]
YList(items) == [t |-> "list", s |-> "", n |-> 0, items |-> items, d |-> EmptyDict]
YMap(d) == [t |-> "map", s |-> "", n |-> 0, items |-> <<>>, d |-> d]

\* bool(value) is False: None, "", 0, [] and {}.
Falsy(v) ==
    \/ v.t = "null"
    \/ v.t = "str" /\ v.s = ""
    \/ v.t = "int" /\ v.n = 0
    \/ v.t = "list" /\ v.items = <<>>
    \/ v.t = "map" /\ v.d.keys = <<>>

\* The file mkdocs.yml: absent; present with a text that is not YAML;
\* present with the text of a YAML value.  by tells whose text it is: the
\* user's (or "mkdocs new"'s), or the text yaml.dump writes for the value.
NoFile == [exists |-> FALSE, parses |-> FALSE, by |-> "nobody", value |-> YNull]
BadFile == [exists |-> TRUE, parses |-> FALSE, by |-> "user", value |-> YNull]
YamlFile(v) == [exists |-> TRUE, parses |-> TRUE, by |-> "user", value |-> v]
Dumped(v) == [exists |-> TRUE, parses |-> TRUE, by |-> "dump", value |-> v]

\* What is left of the file when open(path, "w") has truncated it and the
\* dump did not happen: an empty document.
Truncated == Dumped(YNull)

\* A defect the check of the merge must notice: the incoming value always
\* replaces the existing one, nested maps included.
RECURSIVE MergeShallow(_, _, _)
MergeShallow(existing, new, i) ==
    IF i > Len(new.keys) THEN existing
    ELSE MergeShallow(SetItem(existing, new.keys[i], new.vals[new.keys[i]]),
                      new, i + 1)

\* The loop of merge_dicts over new.items(), from its i-th item on.
RECURSIVE MergeFrom(_, _, _)
MergeFrom(existing, new, i) ==
    IF i > Len(new.keys) THEN existing
    ELSE LET key == new.keys[i]
             value == new.vals[key]
         IN IF /\ value.t = "map"
               /\ HasKey(existing, key)
               /\ existing.vals[key].t = "map"
            THEN MergeFrom(
                   SetItem(existing, key,
                           YMap(MergeFrom(existing.vals[key].d, value.d, 1))),
                   new, i + 1)
            ELSE MergeFrom(SetItem(existing, key, value), new, i + 1)

merge_dicts(existing, new) == MergeFrom(existing, new, 1)

\* update_mkdocs_nav from the file it reads to the file it leaves.  outcome
\* is "logged" when the read or the parse fails and the function returns,
\* "raised" when an exception leaves the function before the file is
\* opened for writing, "written" after yaml.dump.
UpdateNavOnDisk(file, generated_files, is_input_dir, mkdocs_dir, docs_dir_name, name) ==
    IF ~file.exists \/ ~file.parses
    THEN [outcome |-> "logged", file |-> file]
    ELSE IF file.value.t # "map"
    THEN [outcome |-> "raised", file |-> file]
    ELSE LET d0 == file.value.d
             d1 == IF HasKey(d0, "nav") THEN d0
                   ELSE SetItem(d0, "nav", YList(<<>>))
             d2 == SetItem(d1, "site_name", YStr(name))
             d3 == SetItem(d2, "theme",
                           YMap(SetItem(EmptyDict, "name", YStr("material"))))
             nav == d3.vals["nav"]
             r == IF is_input_dir
                  THEN UpdateNavDir(nav.items, generated_files,
                                    join(mkdocs_dir, docs_dir_name))
                  ELSE UpdateNavFile(nav.items, generated_files, mkdocs_dir)
         IN IF nav.t # "list" \/ ~r.ok
            THEN [outcome |-> "raised", file |-> file]
            ELSE [outcome |-> "written",
                  file |-> Dumped(YMap(SetItem(d3, "nav", YList(r.nav))))]

\* update_mkdocs_config_from_toml from the file it reads to the file it
\* leaves, for the [mkdocs] table mkdocs_settings.  A falsy document counts
\* as {}; merge_dicts on a document that is no dict raises at the first
\* incoming item and returns it as it is when there is none.
UpdateConfigOnDisk(file, mkdocs_settings) ==
    IF ~file.exists \/ ~file.parses
    THEN [outcome |-> "logged", file |-> file]
    ELSE LET mkdocs_config == IF Falsy(file.value) THEN YMap(EmptyDict)
                              ELSE file.value
         IN IF mkdocs_config.t = "map"
            THEN [outcome |-> "written",
                  file |-> Dumped(YMap(merge_dicts(mkdocs_config.d,
                                                   mkdocs_settings)))]
            ELSE IF mkdocs_settings.keys = <<>>
            THEN [outcome |-> "written", file |-> Dumped(mkdocs_config)]
            ELSE [outcome |-> "raised", file |-> file]

----------------------------------------------------------------------------
(* One run of process_path *)

NoProbe == [op |-> "none"]

\* The input tree, the settings and the site the tool is started on: the
\* input directory proj with some of the candidate files, or the file
\* proj/a.py itself as the input path; mkdocs.yml in mkdocs_dir, and an
\* empty content directory.  A site inside the input directory has its
\* mkdocs.yml covered by an ignore pattern.
InitWorld ==
    /\ run = 1
    /\ pc = "start"
    /\ files = {} /\ unread = {} /\ handled = {}
    /\ all_contents = EmptyMap /\ fut = EmptyMap
    /\ results = <<>> /\ wlog = <<>>
    /\ cause = "" /\ calls = EmptyMap
    /\ \E tree \in { t \in SUBSET Candidates : Cardinality(t) <= MaxFiles },
          md \in MkdocsDirs, pats \in PatternSets :
          /\ IsPrefix(<<n_proj>>, md) =>
                /\ Cardinality(tree) < MaxFiles
                /\ should_ignore(YmlPath(md), pats)
          /\ fs = [p \in { abspath(<<n_proj>> \o c) : c \in tree }
                          \cup { abspath(YmlPath(md)) } |->
                      IF p = abspath(YmlPath(md)) THEN YmlContent
                      ELSE SrcContent(p)]
          /\ \E ip \in { <<n_proj>> } \cup
                       { <<n_proj>> \o c : c \in tree \cap { <<n_a_py>> } } :
                cfg = [input_path |-> ip, mkdocs_dir |-> md,
                       docs_dir |-> <<n_docs>>, ignore_patterns |-> pats]

InitPP == InitWorld /\ probe = NoProbe /\ yml = SiteDoc(FALSE, <<>>)

SpecPP == InitPP /\ [][ProcessPath]_vars

----------------------------------------------------------------------------
(* cli.main: process_path, create_project_index, update_mkdocs_nav *)

\* generator.create_project_index(): index.md is written into the content
\* directory, whatever the provider answered.
CreateProjectIndex ==
    /\ pc = "returned"
    /\ fs' = [p \in DOMAIN fs \cup {abspath(join(mkdocs_docs, <<n_index_md>>))} |->
                IF p = abspath(join(mkdocs_docs, <<n_index_md>>))
                THEN IndexContent ELSE fs[p]]
    /\ pc' = "index"
    /\ UNCHANGED <<probe, cfg, files, unread, all_contents, fut, handled,
                   results, wlog, cause, yml, run, calls>>

\* if generated_files: is false, and mkdocs.yml is not touched.
SkipNav ==
    /\ pc = "index"
    /\ results = <<>>
    /\ pc' = "done"
    /\ UNCHANGED <<probe, cfg, fs, files, unread, all_contents, fut, handled,
                   results, wlog, cause, yml, run, calls>>

\* mkdocs.update_mkdocs_nav(generated_files, is_input_dir, ...) writes
\* mkdocs.yml.
UpdateNavWrites ==
    /\ pc = "index"
    /\ results # <<>>
    /\ LET r == update_mkdocs_nav(yml, results, IsDir(cfg.input_path),
                                  cfg.mkdocs_dir, cfg.docs_dir)
       IN /\ r.ok
          /\ yml' = r.doc
    /\ pc' = "done"
    /\ UNCHANGED <<probe, cfg, fs, files, unread, all_contents, fut, handled,
                   results, wlog, cause, run, calls>>

\* mkdocs.update_mkdocs_nav raises before it writes, and cli.main ends with
\* the exception.
UpdateNavRaises ==
    /\ pc = "index"
    /\ results # <<>>
    /\ ~update_mkdocs_nav(yml, results, IsDir(cfg.input_path),
                          cfg.mkdocs_dir, cfg.docs_dir).ok
    /\ pc' = "crashed"
    /\ cause' = "nav_error"
    /\ UNCHANGED <<probe, cfg, fs, files, unread, all_contents, fut, handled,
                   results, wlog, yml, run, calls>>

\* The user starts the tool again, on the tree and the site as they are.
Rerun ==
    /\ pc = "done"
    /\ run < MaxRuns
    /\ run' = run + 1
    /\ pc' = "start"
    /\ files' = {} /\ unread' = {} /\ handled' = {}
    /\ all_contents' = EmptyMap /\ fut' = EmptyMap
    /\ results' = <<>> /\ wlog' = <<>>
    /\ calls' = EmptyMap
    /\ UNCHANGED <<probe, cfg, fs, cause, yml>>

\* One run of cli.main on a site that "mkdocs new" has just made.
NextMain ==
    \/ ProcessPath
    \/ CreateProjectIndex
    \/ SkipNav
    \/ UpdateNavWrites
    \/ UpdateNavRaises

SpecMain == InitPP /\ [][NextMain]_vars

Init == InitWorld /\ probe = NoProbe /\ yml \in InitialDocs

Next ==
    \/ ProcessPath
    \/ CreateProjectIndex
    \/ SkipNav
    \/ UpdateNavWrites
    \/ UpdateNavRaises
    \/ Rerun

Spec == Init /\ [][Next]_vars

----------------------------------------------------------------------------
(* cli.main from the settings file on *)

AllSections == {"main", "ignore", "project", "llm"}
Providers == {"gemini", "openai", "ollama"}

\* The patterns the interactive mode falls back to.
DefaultIgnore ==
    << <<".", "v", "e", "n", "v">>, <<"v", "e", "n", "v">>,
       <<"n", "o", "d", "e", "_", "m", "o", "d", "u", "l", "e", "s">>,
       <<".", "g", "i", "t">>,
       <<"_", "_", "p", "y", "c", "a", "c", "h", "e", "_", "_">>,
       <<".", "e", "n", "v">>,
       <<"r", "e", "q", "u", "i", "r", "e", "m", "e", "n", "t", "s", ".",
         "t", "x", "t">> >>

\* The settings document: its tables, and in them [llm] provider ("absent"
\* when the key is not there), whether api_key_file and base_url are set,
\* [main] input_path (<<>> when not set) and [ignore] patterns.
Toml(sections, provider, api_key_file, base_url, input_path) ==
    [sections |-> sections, provider |-> provider,
     api_key_file |-> api_key_file, base_url |-> base_url,
     input_path |-> input_path, patterns |-> <<>>]

\* The settings files: one that lacks a table, and every choice of the
\* [llm] and [main] keys with all tables there.
TomlFiles ==
    { Toml(ss, "gemini", TRUE, FALSE, <<n_proj>>) :
         ss \in (SUBSET AllSections) \ {AllSections} }
    \cup { Toml(AllSections, pr, k, b, ip) :
              pr \in Providers \cup {"other", "absent"}, k \in BOOLEAN,
              b \in BOOLEAN, ip \in { <<>>, <<n_proj>> } }

\* The command line: input_path, --provider and --base-url, each given or
\* not; --interactive, and what the user types at the input path prompt.
ArgSets ==
    [input_path : { <<>>, <<n_proj>> }, provider : {"", "ollama"},
     base_url : BOOLEAN, interactive : BOOLEAN, typed : { <<>>, <<n_proj>> }]

NoConfig == Toml({}, "absent", FALSE, FALSE, <<>>)

\* The tool is started in /w, where proj holds pkg.py and pkg/mod_a.py and
\* docs is a site that "mkdocs new" made.
InitCli ==
    /\ run = 1
    /\ pc = "load_config"
    /\ files = {} /\ unread = {} /\ handled = {}
    /\ all_contents = EmptyMap /\ fut = EmptyMap
    /\ results = <<>> /\ wlog = <<>>
    /\ cause = "" /\ calls = EmptyMap
    /\ yml = SiteDoc(FALSE, <<>>)
    /\ cfg = [input_path |-> <<>>, mkdocs_dir |-> <<n_docs>>,
              docs_dir |-> <<n_docs>>, ignore_patterns |-> <<>>]
    /\ fs = [p \in { abspath(<<n_proj, n_pkg_py>>),
                     abspath(<<n_proj, n_pkg, n_mod_a_py>>),
                     abspath(YmlPath(<<n_docs>>)) } |->
                IF p = abspath(YmlPath(<<n_docs>>)) THEN YmlContent
                ELSE SrcContent(p)]
    /\ \E file \in {"missing", "malformed", "ok"}, t \in TomlFiles,
          a \in ArgSets, kr \in BOOLEAN :
          /\ file # "ok" =>
                /\ t = Toml(AllSections, "gemini", TRUE, FALSE, <<n_proj>>)
                /\ a = [input_path |-> <<>>, provider |-> "",
                        base_url |-> FALSE, interactive |-> FALSE,
                        typed |-> <<>>]
                /\ kr
          /\ probe = [op |-> "cli", file |-> file, toml |-> t, args |-> a,
                      key_readable |-> kr, config |-> NoConfig]

\* config = load_config(args.config); if config is None: exit(1)
LoadConfig ==
    /\ pc = "load_config"
    /\ IF probe.file = "ok" /\ probe.toml.sections = AllSections
       THEN /\ probe' = [probe EXCEPT !.config = probe.toml]
            /\ pc' = "override"
       ELSE /\ pc' = "exit1"
            /\ UNCHANGED probe
    /\ UNCHANGED <<cfg, fs, files, unread, all_contents, fut, handled,
                   results, wlog, cause, yml, run, calls>>

\* config = override_config_with_args(config, args)
OverrideConfigWithArgs ==
    /\ pc = "override"
    /\ probe' = [probe EXCEPT
                   !.config.provider =
                       IF probe.args.provider # "" THEN probe.args.provider
                       ELSE @,
                   !.config.base_url = probe.args.base_url \/ @,
                   !.config.input_path =
                       IF probe.args.input_path # <<>>
                       THEN probe.args.input_path ELSE @]
    /\ pc' = "provider"
    /\ UNCHANGED <<cfg, fs, files, unread, all_contents, fut, handled,
                   results, wlog, cause, yml, run, calls>>

\* llm_provider = get_llm_provider(config); if llm_provider is None:
\* exit(1).  A ValueError of llm.get_llm_provider gives None; the KeyError
\* of a missing provider key and the error of reading the key file are not
\* caught.
GetLlmProvider ==
    /\ pc = "provider"
    /\ LET c == probe.config
           value_error ==
               \/ c.provider \notin Providers \cup {"absent"}
               \/ c.provider \in {"gemini", "openai"} /\ ~c.api_key_file
               \/ c.provider = "ollama" /\ ~c.base_url
           uncaught ==
               \/ c.provider = "absent"
               \/ /\ c.provider \in {"gemini", "openai"}
                  /\ c.api_key_file /\ ~probe.key_readable
       IN /\ pc' = IF uncaught THEN "crashed"
                   ELSE IF value_error THEN "exit1" ELSE "interactive"
          /\ cause' = IF uncaught THEN "config_exception" ELSE cause
    /\ UNCHANGED <<probe, cfg, fs, files, unread, all_contents, fut, handled,
                   results, wlog, yml, run, calls>>

\* config = handle_interactive_mode(config, args): the prompts replace the
\* input path by what was typed (None for an empty line) and, the other
\* prompts left empty, set the default patterns.
HandleInteractiveMode ==
    /\ pc = "interactive"
    /\ probe' = IF probe.args.interactive
                THEN [probe EXCEPT !.config.input_path = probe.args.typed,
                                   !.config.patterns = DefaultIgnore]
                ELSE probe
    /\ pc' = "validate"
    /\ UNCHANGED <<cfg, fs, files, unread, all_contents, fut, handled,
                   results, wlog, cause, yml, run, calls>>

\* A defect the check of the configuration errors must notice: the input
\* path is not validated.
ValidateNothing ==
    /\ pc = "validate"
    /\ pc' = "extract"
    /\ UNCHANGED <<probe, cfg, fs, files, unread, all_contents, fut, handled,
                   results, wlog, cause, yml, run, calls>>

\* validate_main_config(config, parser): no input path, exit(1).
ValidateMainConfig ==
    /\ pc = "validate"
    /\ pc' = IF probe.config.input_path = <<>> THEN "exit1" ELSE "extract"
    /\ UNCHANGED <<probe, cfg, fs, files, unread, all_contents, fut, handled,
                   results, wlog, cause, yml, run, calls>>

\* The settings are taken out of config, the generator is made, and
\* handle_mkdocs_setup finds the site there.
ExtractConfig ==
    /\ pc = "extract"
    /\ cfg' = [input_path |-> probe.config.input_path,
               mkdocs_dir |-> <<n_docs>>, docs_dir |-> <<n_docs>>,
               ignore_patterns |-> probe.config.patterns]
    /\ pc' = "start"
    /\ UNCHANGED <<probe, fs, files, unread, all_contents, fut, handled,
                   results, wlog, cause, yml, run, calls>>

NextCli ==
    \/ LoadConfig
    \/ OverrideConfigWithArgs
    \/ GetLlmProvider
    \/ HandleInteractiveMode
    \/ ValidateMainConfig
    \/ ExtractConfig
    \/ NextMain

SpecCli == InitCli /\ [][NextCli]_vars

----------------------------------------------------------------------------
(* update_mkdocs_nav called again and again on one mkdocs.yml *)

\* How many paths a generated_files list holds at most.
MaxGen == 2
\* How many times update_mkdocs_nav is called at most.
MaxNavCalls == 2

NavCfg ==
    [input_path |-> <<n_proj>>, mkdocs_dir |-> <<n_docs>>,
     docs_dir |-> <<n_docs>>, ignore_patterns |-> <<>>]

\* The output paths process_path may return.
GenPaths == { OutPath(c) : c \in { <<n_a_py>>, <<n_pkg_py>>, <<n_pkg, n_mod_a_py>> } }

GenLists == UNION { [1..n -> GenPaths] : n \in 1..MaxGen }

InitNav ==
    /\ cfg = NavCfg
    /\ fs = EmptyMap
    /\ pc = "nav"
    /\ files = {} /\ unread = {} /\ handled = {}
    /\ all_contents = EmptyMap /\ fut = EmptyMap
    /\ results = <<>> /\ wlog = <<>>
    /\ cause = "" /\ calls = EmptyMap
    /\ run = 1
    /\ yml \in InitialDocs
    /\ \E d \in BOOLEAN :
          probe = [op |-> "nav", is_dir |-> d, calls |-> 0, ok |-> TRUE,
                   gen |-> <<>>, prev_gen |-> <<>>, before |-> yml]

\* One run's call of update_mkdocs_nav with the list generated_files.
NavCall(generated_files) ==
    /\ pc = "nav"
    /\ probe.calls < MaxNavCalls
    /\ LET r == update_mkdocs_nav(yml, generated_files, probe.is_dir,
                                  cfg.mkdocs_dir, cfg.docs_dir)
       IN /\ yml' = r.doc
          /\ probe' = [probe EXCEPT !.calls = @ + 1, !.ok = r.ok,
                                    !.gen = generated_files,
                                    !.prev_gen = probe.gen,
                                    !.before = yml]
    /\ UNCHANGED <<cfg, fs, pc, files, unread, all_contents, fut, handled,
                   results, wlog, cause, run, calls>>

NextNav == \E g \in GenLists : NavCall(g)

SpecNav == InitNav /\ [][NextNav]_vars

----------------------------------------------------------------------------
(* should_ignore called on a path and a pattern list *)

\* How many segments a path given to should_ignore holds at most.
MaxDepth == 3

IgnoreNames == { n_sub, n_tub, n_a_py, DOTDOT }

IgnorePaths ==
    UNION { [1..n -> IgnoreNames] : n \in 0..MaxDepth }
    \cup { <<ROOT>> \o p : p \in UNION { [1..n -> IgnoreNames] : n \in 0..(MaxDepth - 1) } }

IgnorePatterns ==
    { <<>>,
      << n_sub >>,
      << <<"s", "?", "b">> >>,
      << <<"[", "s", "t", "]", "u", "b">> >>,
      << <<"[", "!", "s", "]", "u", "b">> >>,
      << <<"*", ".", "p", "y">>, n_w >>,
      << <<"*", "u", "*">> >>,
      << <<"[", "s", "u", "b">> >> }

InitIgnore ==
    /\ cfg = NavCfg
    /\ fs = EmptyMap
    /\ pc = "probe"
    /\ files = {} /\ unread = {} /\ handled = {}
    /\ all_contents = EmptyMap /\ fut = EmptyMap
    /\ results = <<>> /\ wlog = <<>>
    /\ cause = "" /\ calls = EmptyMap
    /\ run = 1
    /\ yml = SiteDoc(FALSE, <<>>)
    /\ \E p \in IgnorePaths, pats \in IgnorePatterns :
          probe = [op |-> "should_ignore", path |-> p, patterns |-> pats,
                   returned |-> FALSE, result |-> FALSE]

CallShouldIgnore ==
    /\ pc = "probe"
    /\ ~probe.returned
    /\ probe' = [probe EXCEPT !.returned = TRUE,
                              !.result = should_ignore(probe.path, probe.patterns)]
    /\ UNCHANGED <<cfg, fs, pc, files, unread, all_contents, fut, handled,
                   results, wlog, cause, yml, run, calls>>

SpecIgnore == InitIgnore /\ [][CallShouldIgnore]_vars

----------------------------------------------------------------------------
(* update_mkdocs_nav and update_mkdocs_config_from_toml on the file *)

\* How many times the two functions are called on one mkdocs.yml at most.
MaxYmlCalls == 2

HomeLeaf == Leaf(n_Home, <<n_index_md>>)

\* A dict of one key, and of two.
Dict1(k, v) == SetItem(EmptyDict, k, v)
Dict2(k1, v1, k2, v2) == SetItem(Dict1(k1, v1), k2, v2)

\* What mkdocs.yml may be when the tool gets to it.
YmlFiles ==
    { NoFile, BadFile,
      YamlFile(YNull),
      YamlFile(YStr("site")),
      YamlFile(YList(<< HomeLeaf >>)),
      YamlFile(YMap(Dict1("site_name", YStr("site")))),
      YamlFile(YMap(Dict2("site_name", YStr("site"),
                          "nav", YList(<< HomeLeaf >>)))),
      YamlFile(YMap(Dict2("nav", YList(<< Section(n_API, << Leaf(n_mod_a, <<n_pkg, n_mod_a_md>>) >>),
                                          HomeLeaf >>),
                          "site_name", YStr("site")))),
      YamlFile(YMap(Dict1("nav", YNull))),
      YamlFile(YMap(Dict1("nav", YStr("index.md")))),
      YamlFile(YMap(Dict1("nav", YMap(Dict1("Home", YStr("index.md")))))) }

\* The [mkdocs] table of the settings file.
TomlSettings ==
    { EmptyDict,
      Dict1("site_name", YStr("manual")),
      Dict1("theme", YMap(Dict1("palette", YStr("slate")))),
      Dict1("nav", YList(<< HomeLeaf >>)) }

YmlGenLists ==
    { << OutPath(<<n_a_py>>) >>,
      << OutPath(<<n_pkg, n_mod_a_py>>), OutPath(<<n_a_py>>) >> }

InitYml ==
    /\ cfg = NavCfg
    /\ fs = EmptyMap
    /\ pc = "yml"
    /\ files = {} /\ unread = {} /\ handled = {}
    /\ all_contents = EmptyMap /\ fut = EmptyMap
    /\ results = <<>> /\ wlog = <<>>
    /\ cause = "" /\ calls = EmptyMap
    /\ run = 1
    /\ yml \in YmlFiles
    /\ probe = [op |-> "yml", n |-> 0, fn |-> "none", outcome |-> "none",
                before |-> yml]

\* What a call that got as far as open(path, "w") may leave: the dumped
\* document; or, when open raises, the file as it was; or, when the dump
\* raises, the truncated file.  The except clause logs either failure.
WriteOutcomes(r, file) ==
    IF r.outcome # "written" THEN { r }
    ELSE { r, [outcome |-> "write_error", file |-> file],
              [outcome |-> "write_error", file |-> Truncated] }

CallUpdateNav(generated_files, is_input_dir) ==
    /\ pc = "yml"
    /\ probe.n < MaxYmlCalls
    /\ \E r \in WriteOutcomes(
                  UpdateNavOnDisk(yml, generated_files, is_input_dir,
                                  cfg.mkdocs_dir, cfg.docs_dir, "project"),
                  yml) :
          /\ yml' = r.file
          /\ probe' = [probe EXCEPT !.n = @ + 1, !.fn = "update_mkdocs_nav",
                                    !.outcome = r.outcome, !.before = yml]
    /\ UNCHANGED <<cfg, fs, pc, files, unread, all_contents, fut, handled,
                   results, wlog, cause, run, calls>>

CallUpdateConfig(mkdocs_settings) ==
    /\ pc = "yml"
    /\ probe.n < MaxYmlCalls
    /\ \E r \in WriteOutcomes(UpdateConfigOnDisk(yml, mkdocs_settings), yml) :
          /\ yml' = r.file
          /\ probe' = [probe EXCEPT !.n = @ + 1,
                                    !.fn = "update_mkdocs_config_from_toml",
                                    !.outcome = r.outcome, !.before = yml]
    /\ UNCHANGED <<cfg, fs, pc, files, unread, all_contents, fut, handled,
                   results, wlog, cause, run, calls>>

NextYml ==
    \/ \E g \in YmlGenLists, d \in BOOLEAN : CallUpdateNav(g, d)
    \/ \E m \in TomlSettings : CallUpdateConfig(m)

SpecYml == InitYml /\ [][NextYml]_vars

----------------------------------------------------------------------------
(* merge_dicts called on two dicts *)

\* The dicts with the keys of the sequence ks, in that order, and values of
\* the set vs.
DictsOver(ks, vs) ==
    { [keys |-> ks, vals |-> f] : f \in [{ ks[i] : i \in 1..Len(ks) } -> vs] }

MergeScalars == { YInt(1), YInt(2) }

\* Dicts of scalars, and dicts of scalars, lists and such dicts, their keys
\* in either order; and three dicts nested one level more.
MergeInner ==
    UNION { DictsOver(ks, MergeScalars) :
               ks \in { <<>>, <<"x">>, <<"y">>, <<"x", "y">> } }

MergeOuter ==
    UNION { DictsOver(ks, MergeScalars \cup { YMap(d) : d \in MergeInner }) :
               ks \in { <<>>, <<"a">>, <<"b">>, <<"a", "b">>, <<"b", "a">> } }

MergeDeep ==
    { Dict1("a", YMap(Dict1("x", YMap(Dict1("p", YInt(1)))))),
      Dict1("a", YMap(Dict2("x", YMap(Dict1("q", YInt(2))), "y", YInt(2)))),
      Dict2("a", YMap(Dict1("x", YInt(2))), "b", YList(<< HomeLeaf >>)) }

MergeDicts == MergeOuter \cup MergeDeep

InitMerge ==
    /\ cfg = NavCfg
    /\ fs = EmptyMap
    /\ pc = "probe"
    /\ files = {} /\ unread = {} /\ handled = {}
    /\ all_contents = EmptyMap /\ fut = EmptyMap
    /\ results = <<>> /\ wlog = <<>>
    /\ cause = "" /\ calls = EmptyMap
    /\ run = 1
    /\ yml = SiteDoc(FALSE, <<>>)
    /\ \E e \in MergeDicts, n \in MergeDicts :
          probe = [op |-> "merge_dicts", existing |-> e, new |-> n,
                   returned |-> FALSE, result |-> EmptyDict]

CallMergeDicts ==
    /\ pc = "probe"
    /\ probe.op = "merge_dicts"
    /\ ~probe.returned
    /\ probe' = [probe EXCEPT !.returned = TRUE,
                              !.result = merge_dicts(probe.existing, probe.new)]
    /\ UNCHANGED <<cfg, fs, pc, files, unread, all_contents, fut, handled,
                   results, wlog, cause, yml, run, calls>>

SpecMerge == InitMerge /\ [][CallMergeDicts]_vars

----------------------------------------------------------------------------
(* process_docguide_pages on a directory of pages *)

\* How many files docguide/(pages) holds at most.
MaxPages == 3

\* The files docguide/(pages) may hold, relative to it.
PageCandidates ==
    { <<n_x_ai_md>>, <<n_y_md>>, <<n_sub, n_z_md>>, <<n_sub, n_x_ai_md>>,
      <<n_notes_txt>> }

InitPages ==
    /\ cfg = NavCfg
    /\ pc = "pages_start"
    /\ files = {} /\ unread = {} /\ handled = {}
    /\ all_contents = EmptyMap /\ fut = EmptyMap
    /\ results = <<>> /\ wlog = <<>>
    /\ cause = "" /\ calls = EmptyMap
    /\ run = 1
    /\ yml = SiteDoc(FALSE, <<>>)
    /\ probe = NoProbe
    /\ \E tree \in { t \in SUBSET PageCandidates : Cardinality(t) <= MaxPages } :
          fs = [p \in { abspath(pages_input_dir \o c) : c \in tree } |->
                   PageContent(p)]

SpecPages == InitPages /\ [][ProcessDocguidePages]_vars

----------------------------------------------------------------------------
(* cli.main on a project that has docguide pages *)

\* The tool is started on the input directory proj, beside the site docs,
\* in a working directory whose docguide/(pages) holds some pages.  The run
\* is cli.main's: process_path, create_project_index and, with a non-empty
\* list, update_mkdocs_nav; main has no call of process_docguide_pages.
InitFull ==
    /\ run = 1
    /\ pc = "start"
    /\ files = {} /\ unread = {} /\ handled = {}
    /\ all_contents = EmptyMap /\ fut = EmptyMap
    /\ results = <<>> /\ wlog = <<>>
    /\ cause = "" /\ calls = EmptyMap
    /\ probe = NoProbe
    /\ yml = SiteDoc(FALSE, <<>>)
    /\ cfg = NavCfg
    /\ \E tree \in { t \in SUBSET Candidates : Cardinality(t) <= MaxFiles },
          pages \in { t \in SUBSET PageCandidates :
                        Cardinality(t) \in 1..MaxPages } :
          fs = [p \in { abspath(<<n_proj>> \o c) : c \in tree }
                      \cup { abspath(pages_input_dir \o c) : c \in pages }
                      \cup { abspath(YmlPath(<<n_docs>>)) } |->
                   IF p = abspath(YmlPath(<<n_docs>>)) THEN YmlContent
                   ELSE IF IsPrefix(abspath(pages_input_dir), p)
                        THEN PageContent(p)
                   ELSE SrcContent(p)]

SpecFull == InitFull /\ [][NextMain]_vars

----------------------------------------------------------------------------
(* Properties *)

Range(s) == { s[i] : i \in 1..Len(s) }

\* The kids of the first API section of a document's nav, <<>> when the
\* document has none.
ApiSection(doc) ==
    IF ~doc.has_nav \/ FirstAPI(doc.nav, 1) = 0 THEN <<>>
    ELSE doc.nav[FirstAPI(doc.nav, 1)].kids

\* The paths of the leaves of a nav list, one per leaf, at any depth.
RECURSIVE LeafPaths(_)
LeafPaths(list) ==
    IF list = <<>> THEN <<>>
    ELSE (IF list[1].leaf THEN <<list[1].path>> ELSE LeafPaths(list[1].kids))
         \o LeafPaths(Tail(list))

\* No list of the nav tree holds two structurally equal elements.
RECURSIVE NoEqualSiblings(_)
NoEqualSiblings(list) ==
    /\ \A i, j \in 1..Len(list) : i # j => list[i] # list[j]
    /\ \A i \in 1..Len(list) : NoEqualSiblings(list[i].kids)

\* C1: a directory-mode update_mkdocs_nav called again with the same set of
\* generated files leaves the nav list and the API section as long as the
\* call before left them.
C1_RerunKeepsNavLength ==
    (/\ probe.op = "nav"
     /\ probe.is_dir
     /\ probe.calls >= 2
     /\ Range(probe.gen) = Range(probe.prev_gen))
    => /\ Len(yml.nav) = Len(probe.before.nav)
       /\ Len(ApiSection(yml)) = Len(ApiSection(probe.before))

\* C2: after one directory-mode update_mkdocs_nav on a document whose API
\* section is empty or absent, the API section holds exactly one leaf for
\* each distinct generated path, and no list in it holds two equal elements.
C2_OneLeafPerGeneratedPath ==
    (/\ probe.op = "nav"
     /\ probe.is_dir
     /\ probe.calls = 1
     /\ ApiSection(probe.before) = <<>>)
    => LET leaves == LeafPaths(ApiSection(yml))
           content_dir == join(cfg.mkdocs_dir, cfg.docs_dir)
       IN /\ Range(leaves) = { relpath(g, content_dir) : g \in Range(probe.gen) }
          /\ \A i, j \in 1..Len(leaves) : i # j => leaves[i] # leaves[j]
          /\ NoEqualSiblings(ApiSection(yml))

ProcessPathEnded == pc \in {"returned", "crashed"}

Written(rel) ==
    /\ \E i \in 1..Len(wlog) : wlog[i].rel = rel
    /\ \E i \in 1..Len(results) : results[i] = OutPath(rel)

\* C3: when process_path has ended and no write failed, it has returned, and
\* every entry whose generation returned text has its artifact written and
\* its output path in the returned list, whatever the other tasks ended with.
C3_FailedTaskSparesOthers ==
    (ProcessPathEnded /\ cause # "output_error")
    => \A f \in DOMAIN fut :
          fut[f] = "text" => (pc = "returned" /\ Written(f.rel))

\* C4: when process_path has ended and no task raised, it has returned
\* normally, and the returned list is the list of the artifacts written,
\* each of them on disk: a failed write only drops its own artifact.
C4_OutputErrorDropsOneArtifact ==
    (ProcessPathEnded /\ cause # "task_exception")
    => /\ pc = "returned"
       /\ results = [i \in 1..Len(wlog) |-> wlog[i].path]
       /\ \A i \in 1..Len(results) : abspath(results[i]) \in DOMAIN fs

\* C5: when process_path returns, every entry r whose generation returned
\* text was written exactly once, to <content_dir>/<dirname(r)>/<stem(r)>.md,
\* and that file holds the text generated for r.
C5_EachResultAtItsOwnPath ==
    pc = "returned"
    => \A f \in DOMAIN fut :
          fut[f] = "text" =>
             LET target == join(join(mkdocs_docs, dirname(f.rel)),
                                <<splitext(basename(f.rel))[1] \o ext_md>>)
             IN /\ Cardinality({ i \in 1..Len(wlog) : wlog[i].rel = f.rel }) = 1
                /\ \A i \in 1..Len(wlog) :
                      wlog[i].rel = f.rel => wlog[i].path = target
                /\ abspath(target) \in DOMAIN fs
                /\ fs[abspath(target)] = DocContent(f.rel)

\* C6: two distinct relative paths of one corpus never get the same output
\* path, and no two writes of one run go to the same file.
C6_OutputPathInjective ==
    /\ \A f, g \in files : f.rel # g.rel => OutPath(f.rel) # OutPath(g.rel)
    /\ \A i, j \in 1..Len(wlog) : i # j => wlog[i].path # wlog[j].path

\* C7: should_ignore returns true whenever the base name of the absolute
\* path, or of one of its ancestor directories below the root, matches a
\* pattern.
C7_IgnoredAtAnyDepth ==
    (probe.op = "should_ignore" /\ probe.returned)
    => LET a == abspath(probe.path)
       IN (\E i \in 2..Len(a) : MatchesAny(a[i], probe.patterns))
             => probe.result

\* C7's case: the call returned true for a path whose own name matches no
\* pattern and one of whose ancestor directories does.
C7_Witness ==
    /\ probe.op = "should_ignore"
    /\ probe.returned
    /\ probe.result
    /\ LET a == abspath(probe.path)
       IN /\ Len(a) >= 3
          /\ ~MatchesAny(a[Len(a)], probe.patterns)
          /\ \E i \in 2..(Len(a) - 1) : MatchesAny(a[i], probe.patterns)

\* A name of the path below the input directory, the file's own or a
\* directory's, matches an ignore pattern; so does a name of the input
\* directory's own absolute path.
RejectedByFilter(f) ==
    \E i \in 2..Len(f) : MatchesAny(f[i], cfg.ignore_patterns)

UnderIgnoredDir(f) ==
    \E i \in 2..(Len(f) - 1) : MatchesAny(f[i], cfg.ignore_patterns)

FilesBelowInput ==
    { f \in DOMAIN fs :
         IsPrefix(abspath(cfg.input_path), f) /\ f # abspath(cfg.input_path) }

RelOf(f) == SubSeq(f, Len(abspath(cfg.input_path)) + 1, Len(f))

\* C8: for a directory input, once the pre-read loop is over the Corpus
\* keys are the root-relative paths of the readable files below the input
\* directory that the filter does not reject; and a file under an ignored
\* directory never has a Corpus entry, a write, or an artifact.
C8_CorpusIsTheUnignoredFiles ==
    IsDir(cfg.input_path) =>
      /\ (pc \in {"submit", "join"} /\ wlog = <<>>)
            => DOMAIN all_contents =
                 { RelOf(f) : f \in { g \in FilesBelowInput :
                                        /\ Readable(fs[g])
                                        /\ ~RejectedByFilter(g) } }
      /\ \A f \in FilesBelowInput :
            UnderIgnoredDir(f) =>
               /\ RelOf(f) \notin DOMAIN all_contents
               /\ \A i \in 1..Len(wlog) : wlog[i].rel # RelOf(f)
               /\ abspath(OutPath(RelOf(f))) \notin DOMAIN fs

\* C8's case: a.py and sub/b.py with the pattern sub; process_path has
\* returned with a Corpus of exactly a.py and a.py's artifact written.
C8_Witness ==
    /\ pc = "returned"
    /\ cfg.ignore_patterns = << n_sub >>
    /\ abspath(<<n_proj, n_sub, n_b_py>>) \in DOMAIN fs
    /\ abspath(<<n_proj, n_a_py>>) \in DOMAIN fs
    /\ IsDir(cfg.input_path)
    /\ DOMAIN all_contents = { <<n_a_py>> }
    /\ Len(wlog) = 1

\* C9: when the input path is a regular file, the Corpus holds exactly one
\* entry, that file, and exactly one generation task is dispatched.
C9_SingleFileCorpus ==
    (IsFile(cfg.input_path) /\ pc \in {"join", "returned"})
    => /\ Cardinality(DOMAIN all_contents) = 1
       /\ Cardinality(files) = 1
       /\ \A f \in files : abspath(f.fp) = abspath(cfg.input_path)
       /\ Cardinality(DOMAIN fut) = 1

\* C10: when the content directory matches no ignore pattern, no file below
\* it is collected or enters the Corpus.
C10_OutputNeverReadAsSource ==
    ~should_ignore(mkdocs_docs, cfg.ignore_patterns)
    => /\ \A f \in files : ~IsPrefix(abspath(mkdocs_docs), abspath(f.fp))
       /\ \A rel \in DOMAIN all_contents :
             ~IsPrefix(abspath(mkdocs_docs), abspath(join(cfg.input_path, rel)))

\* The document cannot be used as a SiteConfig: the file is missing or is
\* not YAML, or the document is not a map, or its nav is not a list.
Unusable(file) ==
    \/ ~file.exists
    \/ ~file.parses
    \/ file.value.t # "map"
    \/ HasKey(file.value.d, "nav") /\ file.value.d.vals["nav"].t # "list"

\* C11: a call of update_mkdocs_nav or update_mkdocs_config_from_toml on a
\* mkdocs.yml that is missing, is not YAML, or is not a map with a list for
\* nav ends with an error (logged or raised) and leaves the file as it was.
C11_UnusableDocumentLeftUntouched ==
    (probe.op = "yml" /\ probe.n >= 1 /\ Unusable(probe.before))
    => /\ probe.outcome \in {"logged", "raised"}
       /\ yml = probe.before

KeySet(d) == { d.keys[i] : i \in 1..Len(d.keys) }

\* r is what the claim says the merge of e and n is: r has the keys of
\* both; a key that holds a map in both holds the merge of the two maps;
\* any other key of n holds n's value; a key of e alone holds e's value.
RECURSIVE IsMergeOf(_, _, _)
IsMergeOf(r, e, n) ==
    /\ KeySet(r) = KeySet(e) \cup KeySet(n)
    /\ Len(r.keys) = Cardinality(KeySet(r))
    /\ \A k \in KeySet(r) :
          IF /\ k \in KeySet(e) /\ k \in KeySet(n)
             /\ e.vals[k].t = "map" /\ n.vals[k].t = "map"
          THEN /\ r.vals[k].t = "map"
               /\ IsMergeOf(r.vals[k].d, e.vals[k].d, n.vals[k].d)
          ELSE IF k \in KeySet(n) THEN r.vals[k] = n.vals[k]
          ELSE r.vals[k] = e.vals[k]

\* C12: merge_dicts(existing, new) has the keys of both; where both hold a
\* map the result holds their merge, elsewhere new's value wins, and a key
\* of existing alone keeps its value; {a:{x:1}} with {a:{y:2}} gives
\* {a:{x:1,y:2}} and {a:1} with {a:2} gives {a:2}.
C12_MergeRightBiasedUnion ==
    (probe.op = "merge_dicts" /\ probe.returned)
    => /\ IsMergeOf(probe.result, probe.existing, probe.new)
       /\ (/\ probe.existing = Dict1("a", YMap(Dict1("x", YInt(1))))
           /\ probe.new = Dict1("a", YMap(Dict1("y", YInt(2)))))
          => probe.result =
                Dict1("a", YMap(Dict2("x", YInt(1), "y", YInt(2))))
       /\ (/\ probe.existing = Dict1("a", YInt(1))
           /\ probe.new = Dict1("a", YInt(2)))
          => probe.result = Dict1("a", YInt(2))

\* C12's case: {a:{x:1}, b:1} merged with {a:{y:2}} has given
\* {a:{x:1,y:2}, b:1}: a nested merge that kept a key of existing alone.
C12_Witness ==
    /\ probe.op = "merge_dicts"
    /\ probe.returned
    /\ probe.existing = Dict2("a", YMap(Dict1("x", YInt(1))), "b", YInt(1))
    /\ probe.new = Dict1("a", YMap(Dict1("y", YInt(2))))
    /\ probe.result =
          Dict2("a", YMap(Dict2("x", YInt(1), "y", YInt(2))), "b", YInt(1))

n_mod_b_md == <<"m", "o", "d", "_", "b", ".", "m", "d">>
n_mod_b == <<"m", "o", "d", "_", "b">>
n_top_md == <<"t", "o", "p", ".", "m", "d">>
n_top == <<"t", "o", "p">>

SectionsNamed(list, k) ==
    { i \in 1..Len(list) : ~list[i].leaf /\ list[i].k = k }
LeavesNamed(list, k) ==
    { i \in 1..Len(list) : list[i].leaf /\ list[i].k = k }

\* The relative path rel is placed in the nav list, from its i-th segment
\* on: one section for each directory segment, one inside the other, and in
\* the innermost one leaf, keyed by the file's stem, holding rel.
RECURSIVE PlacedAt(_, _, _)
PlacedAt(list, rel, i) ==
    IF i = Len(rel)
    THEN /\ Cardinality(LeavesNamed(list, splitext(rel[i])[1])) = 1
         /\ \A j \in LeavesNamed(list, splitext(rel[i])[1]) : list[j].path = rel
    ELSE /\ Cardinality(SectionsNamed(list, rel[i])) = 1
         /\ \A j \in SectionsNamed(list, rel[i]) :
               PlacedAt(list[j].kids, rel, i + 1)

\* C13: after one directory-mode update_mkdocs_nav on a document whose API
\* section is empty or absent, every generated path has, in the API section,
\* one section per directory segment and in it one leaf keyed by the file's
\* stem and holding the path relative to the content directory; and
\* [pkg/mod_a.md, pkg/mod_b.md, top.md] gives pkg: [mod_a, mod_b] and then
\* top.
C13_NavTreeMirrorsThePaths ==
    (/\ probe.op = "nav"
     /\ probe.is_dir
     /\ probe.calls = 1
     /\ ApiSection(probe.before) = <<>>)
    => LET content_dir == join(cfg.mkdocs_dir, cfg.docs_dir)
       IN /\ probe.ok
          /\ \A g \in Range(probe.gen) :
                PlacedAt(ApiSection(yml), relpath(g, content_dir), 1)
          /\ probe.gen = << content_dir \o <<n_pkg, n_mod_a_md>>,
                            content_dir \o <<n_pkg, n_mod_b_md>>,
                            content_dir \o <<n_top_md>> >>
             => ApiSection(yml) =
                  << Section(n_pkg, << Leaf(n_mod_a, <<n_pkg, n_mod_a_md>>),
                                       Leaf(n_mod_b, <<n_pkg, n_mod_b_md>>) >>),
                     Leaf(n_top, <<n_top_md>>) >>

\* How many elements of the list equal e.
CountOf(list, e) == Cardinality({ i \in 1..Len(list) : list[i] = e })

\* The entry of the single-file branch for the output file: its stem, and
\* its path below the project directory mkdocs_dir.
FileEntry(file) ==
    Leaf(splitext(Last(file))[1],
         SubSeq(file, Len(cfg.mkdocs_dir) + 1, Len(file)))

\* C14: after a single-file update_mkdocs_nav the top-level nav list holds
\* the file's {name: path} entry exactly once: the call appended it when the
\* list did not hold it and left the list alone when it did.
C14_SingleFileEntryOnce ==
    (probe.op = "nav" /\ ~probe.is_dir /\ probe.calls >= 1)
    => LET entry == FileEntry(probe.gen[1])
       IN /\ probe.ok
          /\ CountOf(yml.nav, entry) = 1
          /\ yml.nav = IF CountOf(probe.before.nav, entry) = 0
                       THEN Append(probe.before.nav, entry)
                       ELSE probe.before.nav

\* C14's case: the second single-file call with the same file found the
\* first call's entry and added nothing.
C14_Witness ==
    /\ probe.op = "nav"
    /\ ~probe.is_dir
    /\ probe.calls = 2
    /\ probe.gen[1] = probe.prev_gen[1]
    /\ CountOf(yml.nav, FileEntry(probe.gen[1])) = 1
    /\ yml.nav = probe.before.nav
    /\ Last(yml.nav) = FileEntry(probe.gen[1])

\* C15: an entry whose generation returned "" or None, or raised, has no
\* write and no element of the returned list; the list holds the written
\* paths and nothing else; and with two files, one returning "" and the
\* other a text that was written, there is exactly one artifact, it is the
\* one element of the list, and the run does not end with an error.
C15_EmptyResultWritesNothing ==
    /\ \A f \in DOMAIN fut :
          fut[f] \in {"empty", "none", "raised"}
          => \A i \in 1..Len(wlog) : wlog[i].rel # f.rel
    /\ results = [i \in 1..Len(wlog) |-> wlog[i].path]
    /\ \A f, g \in files :
          (/\ files = {f, g} /\ f # g
           /\ f \in handled /\ fut[f] = "empty"
           /\ g \in handled /\ fut[g] = "text"
           /\ \E i \in 1..Len(wlog) : wlog[i].rel = g.rel)
          => /\ results = << OutPath(g.rel) >>
             /\ abspath(OutPath(g.rel)) \in DOMAIN fs
             /\ fs[abspath(OutPath(g.rel))] = DocContent(g.rel)
             /\ { p \in DOMAIN fs : fs[p].kind = "doc" } = { abspath(OutPath(g.rel)) }
             /\ pc # "crashed"

\* C15's case: cli.main has ended normally on two files, one of which
\* returned "" and the other a text, with one path in the returned list.
C15_Witness ==
    /\ pc = "done"
    /\ Cardinality(files) = 2
    /\ \E f, g \in files : fut[f] = "empty" /\ fut[g] = "text"
    /\ Len(results) = 1
    /\ yml.has_nav

\* The settings and the command line hold one of the configuration errors:
\* no settings file or one that is not TOML, a table missing, a provider
\* selector that is absent or not supported, no credential path for gemini
\* or openai, no base URL for ollama, or no input path.
ConfigError ==
    LET t == probe.toml
        a == probe.args
        provider == IF a.provider # "" THEN a.provider ELSE t.provider
        input_path == IF a.interactive THEN a.typed
                      ELSE IF a.input_path # <<>> THEN a.input_path
                      ELSE t.input_path
    IN \/ probe.file # "ok"
       \/ t.sections # AllSections
       \/ provider \notin Providers
       \/ provider \in {"gemini", "openai"} /\ ~t.api_key_file
       \/ provider = "ollama" /\ ~(a.base_url \/ t.base_url)
       \/ input_path = <<>>

\* C16: with a configuration error the run never gets past the checks of
\* the configuration: it is still in them or has ended with a non-zero exit,
\* no file was collected or read, no generation was requested, nothing was
\* written and mkdocs.yml is as it was.
C16_ConfigErrorStopsBeforeProcessing ==
    (probe.op = "cli" /\ ConfigError)
    => /\ pc \in {"load_config", "override", "provider", "interactive",
                  "validate", "exit1", "crashed"}
       /\ pc = "crashed" => cause = "config_exception"
       /\ files = {} /\ all_contents = EmptyMap
       /\ fut = EmptyMap /\ calls = EmptyMap
       /\ results = <<>> /\ wlog = <<>>
       /\ \A p \in DOMAIN fs : fs[p].kind \in {"src", "yml"}
       /\ yml = SiteDoc(FALSE, <<>>)

\* C16's case: the settings file and the provider were fine, no input path
\* was given anywhere, and the run has ended with exit(1) at the validation.
C16_Witness ==
    /\ probe.op = "cli"
    /\ pc = "exit1"
    /\ probe.config.sections = AllSections
    /\ probe.config.provider = "ollama" /\ probe.config.base_url
    /\ probe.config.input_path = <<>>
    /\ files = {} /\ wlog = <<>>

\* The pages below docguide/(pages), as absolute paths.
PagesOnDisk ==
    { f \in DOMAIN fs : fs[f].kind = "page" /\ IsPrefix(abspath(pages_input_dir), f) }

\* Where the claim puts the page f: below the content directory, in the
\* directory it has below docguide/(pages), under its name, a prompt page
\* with ".ai.md" replaced by ".md".
MirroredPage(f) ==
    LET below == SubSeq(f, Len(abspath(pages_input_dir)) + 1, Len(f) - 1)
        name == Last(f)
        out_name == IF EndsWith(name, ext_ai_md)
                    THEN SubSeq(name, 1, Len(name) - Len(ext_ai_md)) \o ext_md
                    ELSE name
    IN abspath(join(cfg.mkdocs_dir, cfg.docs_dir)) \o below \o <<out_name>>

\* C17: when process_docguide_pages has returned, every page ending in
\* .ai.md and every page ending in .md had a task, a prompt task or a copy
\* task; every task that did not fail left its page at the mirrored path,
\* generated from the prompt or equal to the source, and its relative path
\* in the returned list; no other file had a task; and the returned list
\* holds the pages written and nothing else.
C17_PagesHandledBySuffix ==
    pc = "pages_returned"
    => /\ \A f \in PagesOnDisk :
             IF EndsWith(Last(f), ext_md)
             THEN \E t \in files :
                     /\ abspath(t.fp) = f
                     /\ t.use_ai = EndsWith(Last(f), ext_ai_md)
                     /\ abspath(t.out) = MirroredPage(f)
                     /\ fut[t] = "path" =>
                           /\ MirroredPage(f) \in DOMAIN fs
                           /\ fs[MirroredPage(f)] =
                                 IF t.use_ai THEN GeneratedPage(f) ELSE fs[f]
                           /\ \E i \in 1..Len(results) : results[i] = t.rel
             ELSE \A t \in files : abspath(t.fp) # f
       /\ Range(results) = { t.rel : t \in { u \in files : fut[u] = "path" } }
       /\ \A t \in files :
             abspath(join(join(cfg.mkdocs_dir, cfg.docs_dir), t.rel)) = abspath(t.out)

\* C18: in a run of process_path the provider is called at most once for
\* each collected file and only for collected files: never for a task that
\* is still pending, once for a task that ended with a text, an empty answer
\* or a provider error, and a task that ended is not pending again.
C18_SingleAttemptPerFile ==
    /\ DOMAIN calls \subseteq files
    /\ \A f \in DOMAIN calls :
          /\ calls[f] <= 1
          /\ f \in DOMAIN fut
          /\ fut[f] = "pending" => calls[f] = 0
          /\ fut[f] \in {"text", "empty"} => calls[f] = 1
          /\ f \in handled => fut[f] # "pending"
    /\ \A f \in DOMAIN fut : fut[f] # "pending" => f \in DOMAIN calls

\* C18's case: process_path has returned with a task whose provider call
\* failed and a task that was answered "", each called once.
C18_Witness ==
    /\ pc = "returned"
    /\ \E f, g \in files :
          /\ f.rel \in DOMAIN all_contents /\ fut[f] = "none" /\ calls[f] = 1
          /\ fut[g] = "empty" /\ calls[g] = 1

\* C19: once a generation task has been submitted, every collected file
\* has been read, into a Corpus entry holding its text or, unreadable, into
\* none; and no step taken from then on changes the Corpus.
C19_CorpusFrozenBeforeDispatch ==
    /\ [](fut # EmptyMap
          => /\ unread = {}
             /\ \A f \in files :
                   IF Readable(fs[abspath(f.fp)])
                   THEN /\ f.rel \in DOMAIN all_contents
                        /\ all_contents[f.rel] = fs[abspath(f.fp)]
                   ELSE f.rel \notin DOMAIN all_contents)
    /\ [][fut # EmptyMap => all_contents' = all_contents]_vars

\* C19's case: with two entries in the Corpus, one task has ended and the
\* other is still running.
C19_Witness ==
    /\ pc = "join"
    /\ Cardinality(DOMAIN all_contents) = 2
    /\ \E f, g \in DOMAIN fut : fut[f] = "pending" /\ fut[g] # "pending"

\* b holds the elements of a, each as often, in some order.
IsPermutation(a, b) ==
    /\ Len(a) = Len(b)
    /\ \A x \in Range(a) \cup Range(b) : CountOf(a, x) = CountOf(b, x)

\* C20: what one directory-mode update_mkdocs_nav made of the document and
\* the list generated_files is what it makes of the same document and any
\* other order of that list: the same success or failure and the same
\* document written.
C20_NavIndependentOfCompletionOrder ==
    (probe.op = "nav" /\ probe.is_dir /\ probe.calls = 1)
    => \A g \in GenLists :
          IsPermutation(g, probe.gen)
          => update_mkdocs_nav(probe.before, g, TRUE, cfg.mkdocs_dir,
                               cfg.docs_dir)
             = [ok |-> probe.ok, doc |-> yml]

\* The nav list of a document, <<>> when the document has no nav key.
NavOf(doc) == IF doc.has_nav THEN doc.nav ELSE <<>>

\* C21: a directory-mode update_mkdocs_nav that wrote mkdocs.yml kept every
\* top-level nav entry at its place and every entry of the API section at
\* its place, ahead of what it added: the old API section is a prefix of the
\* new one, every other entry is unchanged, and the only entry the nav list
\* may gain is an API section at its end.  A call that raised left the
\* document as it was.
C21_MergeAppendsNeverReplaces ==
    (probe.op = "nav" /\ probe.is_dir /\ probe.calls >= 1)
    => LET old == NavOf(probe.before)
           new == NavOf(yml)
           api == FirstAPI(old, 1)
       IN IF ~probe.ok THEN yml = probe.before
          ELSE /\ Len(new) = Len(old) + (IF api = 0 THEN 1 ELSE 0)
               /\ \A i \in 1..Len(old) :
                     IF i = api
                     THEN /\ new[i].k = n_API /\ ~new[i].leaf
                          /\ IsPrefix(old[i].kids, new[i].kids)
                     ELSE new[i] = old[i]
               /\ api = 0 => new[Len(new)].k = n_API /\ ~new[Len(new)].leaf

\* C21's case: the document had an API section with an entry and another
\* top-level entry, and the call added to the section.
C21_Witness ==
    /\ probe.op = "nav" /\ probe.is_dir /\ probe.calls >= 1 /\ probe.ok
    /\ ApiSection(probe.before) # <<>>
    /\ Len(NavOf(probe.before)) >= 2
    /\ Len(ApiSection(yml)) > Len(ApiSection(probe.before))

\* The tasks process_docguide_pages submits for the pages on disk.
PageTasksOnDisk ==
    UNION { PageTaskOf(e, mkdocs_docs) : e \in Walk(pages_input_dir) }

\* C22: when a run of cli.main has ended, every page of docguide/(pages)
\* that process_docguide_pages handles has a leaf in the nav of mkdocs.yml
\* whose path is the page's path relative to the content directory.
C22_PagesReachNavigation ==
    pc = "done"
    => \A t \in PageTasksOnDisk :
          t.rel \in Range(LeafPaths(NavOf(yml)))

\* How many top-level entries of a nav list have the key API.
ApiEntries(nav) == Cardinality({ i \in 1..Len(nav) : nav[i].k = n_API })

\* C23: after any number of directory-mode calls of update_mkdocs_nav on a
\* document that had at most one top-level API entry, the nav list of
\* mkdocs.yml has exactly one.
C23_ExactlyOneApiSection ==
    (probe.op = "nav" /\ probe.is_dir /\ probe.calls >= 1)
    => ApiEntries(NavOf(yml)) = 1

\* Every submitted task has finished, and every call of the provider
\* returned a string: no task ended with the provider's exception.
EveryGenerateReturned ==
    \A f \in files :
       /\ Finished(f)
       /\ (f \in DOMAIN calls /\ calls[f] > 0) => fut[f] \in {"text", "empty"}

\* C24: process_path returns only when every submitted task has finished;
\* and when every call of the provider returned, process_path ends by
\* returning a list that holds the output path of each entry whose
\* generation returned text, once per such entry, and nothing else.
C24_FanInComplete ==
    /\ pc = "returned" => \A f \in files : Finished(f)
    /\ (ProcessPathEnded /\ EveryGenerateReturned)
       => /\ pc = "returned"
          /\ \A p \in Range(results) \cup { OutPath(f.rel) : f \in files } :
                CountOf(results, p) =
                   Cardinality({ f \in files :
                                   fut[f] = "text" /\ OutPath(f.rel) = p })

====
